---- MODULE Spec2Model ----
(***************************************************************************)
(* Model of app.py, the Streamlit entry point of the Resume Customizer:    *)
(* the session-state initialisation, the tiered requirements-manager       *)
(* resolver, the lazy module-level singletons, the application health      *)
(* check and the run of main() with its user actions.                      *)
(*                                                                         *)
(* The module holds several specifications over one set of variables; a    *)
(* specification leaves the variables of the other parts at their idle     *)
(* value.                                                                  *)
(*   SpecSession  initialize_session_state applied to arbitrary sessions   *)
(*   SpecReq      get_cached_requirements_manager over all probe outcomes  *)
(*   SpecLazy     concurrent callers of the lazy getters                   *)
(*   SpecHealth   check_application_health over all probe outcomes         *)
(*   Spec         successive runs of main() in one session                 *)
(***************************************************************************)
EXTENDS Naturals, Sequences, FiniteSets

VARIABLES
    session,        \* st.session_state: key -> value, Absent when the key is not in it
    sess_before,    \* st.session_state as it was when initialize_session_state was last entered
    sess_calls,     \* number of calls of initialize_session_state made (SpecSession)
    env,            \* what the module-level try/import blocks found: flag -> BOOLEAN
    req_in,         \* what the database steps and the manager class do when they are used
    req_cache,      \* st.cache_resource entry of get_cached_requirements_manager
    req_out,        \* how the last call of get_cached_requirements_manager ended
    req_calls,      \* number of calls of get_cached_requirements_manager made
    lazy_global,    \* _ui_components, _secure_ui_components, _app_guide: 0 is None
    lazy_built,     \* constructions made of each lazily loaded resource
    lazy_returned,  \* the instances each getter has handed to a caller
    ctx,            \* each execution context's place in the getter it is calling
    now,            \* the clock, in seconds
    health_cache,   \* st.cache_data entry of check_application_health
    health_cached_at, \* when that entry was stored
    health_out,     \* what the last call of check_application_health handed its caller
    health_calls,   \* number of calls of check_application_health made
    health_in,      \* what the probes found when the body of the check last ran
    health_runs,    \* number of times the body of the check ran
    health_called_at, \* when check_application_health was last called
    pc,             \* where the current run of main() is; "idle" between runs
    click,          \* the button whose click started the run, "none" for any other start
    uploaded,       \* number of files held by the upload widget
    shown,          \* what the run has put on the page so far
    health_status,  \* main()'s local health_status
    main_flow,      \* the run has passed the health gate
    outcome,        \* how the last run ended
    constructed,    \* the session handlers the current run has constructed
    bulk,           \* each browser session's run of 'Start Bulk Processing'
    bulk_n,         \* number of files the bulk processing is started on
    validation,     \* the run of 'Validate All Files (Async)'
    file_source,    \* the choice of the 'Select file source' radio
    all_files,      \* number of files in main()'s all_files in the current run
    forms,          \* the files whose input form app.py has rendered in the run
    loader_tabs,    \* the files handed to progressive_loader.render_tabs_progressive
    form_pc,        \* where the run is in the 'Resume Input Forms' expander
    exit_pc,        \* where the script is: in main(), in the finally block, or over
    main_ended,     \* how main() ended in this execution of the script
    cleanup_in,     \* what each step of cleanup_on_exit does when it is reached
    cleanup_log,    \* the steps cleanup_on_exit has performed, in order
    cleanup_calls,  \* number of calls of cleanup_on_exit made
    cleanup_out     \* how the last call of cleanup_on_exit ended

sessionVars == <<session, sess_before, sess_calls>>

reqVars == <<req_in, req_cache, req_out, req_calls>>

lazyVars == <<lazy_global, lazy_built, lazy_returned, ctx>>

healthVars == <<now, health_cache, health_cached_at, health_out, health_calls,
                health_in, health_runs, health_called_at>>

mainVars == <<pc, click, uploaded, shown, health_status, main_flow, outcome,
              constructed>>

batchVars == <<bulk, bulk_n, validation>>

formVars == <<file_source, all_files, forms, loader_tabs, form_pc>>

exitVars == <<exit_pc, main_ended, cleanup_in, cleanup_log, cleanup_calls, cleanup_out>>

vars == <<session, sess_before, sess_calls, env, req_in, req_cache, req_out, req_calls,
          lazy_global, lazy_built, lazy_returned, ctx,
          now, health_cache, health_cached_at, health_out, health_calls,
          health_in, health_runs, health_called_at,
          pc, click, uploaded, shown, health_status, main_flow, outcome,
          constructed, bulk, bulk_n, validation,
          file_source, all_files, forms, loader_tabs, form_pc,
          exit_pc, main_ended, cleanup_in, cleanup_log, cleanup_calls, cleanup_out>>

(***************************************************************************)
(* Module load: the try/import blocks and the globals they define          *)
(***************************************************************************)

\* The availability flags the module sets while it is loaded, and the two
\* imports check_application_health retries on every use; then what main()
\* finds when it builds the handlers: whether get_resume_manager can be
\* imported, and whether a handler's resume_manager has the method
\* process_single_resume_async.
EnvFlags ==
    { "PERFORMANCE_OPTIMIZATIONS_AVAILABLE", "ERROR_HANDLING_AVAILABLE",
      "ASYNC_PROCESSING_AVAILABLE", "PERFORMANCE_MONITOR_AVAILABLE",
      "MEMORY_OPTIMIZER_AVAILABLE", "docx_importable", "psutil_importable",
      "resume_processor_importable", "manager_has_async",
      "PROGRESSIVE_LOADER_AVAILABLE", "EMAIL_MANAGER_AVAILABLE" }

\* Every subsystem found.
FullEnv == [f \in EnvFlags |-> TRUE]

\* The environments in which only the flags of `varying` may be false.
EnvsVarying(varying) ==
    { [f \in EnvFlags |-> f \notin missing] : missing \in SUBSET varying }

\* The module global perf_optimizer: the imported optimizer, or the fallback.
perf_optimizer(e) ==
    IF e["PERFORMANCE_OPTIMIZATIONS_AVAILABLE"] THEN "perf_optimizer" ELSE "None"

\* get_performance_monitor(): the imported getter's monitor, or the fallback's result.
get_performance_monitor(e) ==
    IF e["PERFORMANCE_MONITOR_AVAILABLE"] THEN "PerformanceMonitor" ELSE "None"

(***************************************************************************)
(* st.session_state                                                        *)
(***************************************************************************)

\* Marks a key that is not in st.session_state.
Absent == "<absent>"

\* A value stored under a key by something other than the defaults.
UserValue == "<user value>"

\* The keys of the dict returned by get_default_session_state.
DefaultKeys ==
    { "initialized", "resume_text", "job_description", "customized_resume",
      "uploaded_files", "processing_status", "email_sent", "bulk_results",
      "current_tab", "performance_data", "error_history", "last_health_check",
      "async_tasks", "ui_preferences" }

\* The other keys main() reads or writes in st.session_state.
MainKeys ==
    { "async_initialized", "debug_mode", "resume_tab_handler", "bulk_processor",
      "resume_inputs", "user_id", "redirect_to_about", "requirements_manager",
      "settings_performance_checkbox" }

SessionKeys == DefaultKeys \cup MainKeys

\* get_default_session_state(): the default of every key.
get_default_session_state ==
    [k \in DefaultKeys |->
        CASE k = "initialized"       -> "True"
          [] k = "resume_text"       -> "''"
          [] k = "job_description"   -> "''"
          [] k = "customized_resume" -> "''"
          [] k = "uploaded_files"    -> "[]"
          [] k = "processing_status" -> "{}"
          [] k = "email_sent"        -> "False"
          [] k = "bulk_results"      -> "[]"
          [] k = "current_tab"       -> "Upload Resume"
          [] k = "performance_data"  -> "{}"
          [] k = "error_history"     -> "[]"
          [] k = "last_health_check" -> "None"
          [] k = "async_tasks"       -> "{}"
          [] k = "ui_preferences"    -> "{theme: light, show_debug: False, auto_save: True}"]

\* A new session: no key at all.
EmptySession == [k \in SessionKeys |-> Absent]

\* key in st.session_state
Has(s, k) == s[k] # Absent

\* How a call ends: it returns a value or raises an exception.
Return(v) == [kind |-> "return", value |-> v]
Raise(e) == [kind |-> "raise", value |-> e]

\* A plausible slip: the loop assigns every default, present or not.
MergeDefaultsOverwriting(s, defaults) ==
    [k \in DOMAIN s |-> IF k \in DOMAIN defaults THEN defaults[k] ELSE s[k]]

\* The loop of initialize_session_state: a default is stored only under a key
\* that is not in the session.
MergeDefaults(s, defaults) ==
    [k \in DOMAIN s |->
        IF k \in DOMAIN defaults /\ ~Has(s, k) THEN defaults[k] ELSE s[k]]

\* A plausible slip: no test of 'initialized', and every default assigned on
\* every run.
InitializeSessionStateEveryRun(s) ==
    MergeDefaultsOverwriting(s, get_default_session_state)

\* initialize_session_state(): nothing at all is done once 'initialized' is a key.
initialize_session_state(s) ==
    IF ~Has(s, "initialized")
    THEN MergeDefaults(s, get_default_session_state)
    ELSE s

(***************************************************************************)
(* get_cached_requirements_manager                                         *)
(***************************************************************************)

DatabaseManager == "RequirementsManager(use_database=True)"
JsonManager == "RequirementsManager(use_database=False)"
None == "None"

\* What each step of the resolver can do when it is used.
ReqInputs ==
    [ database_import : {"ok", "ImportError", "Exception"},
      setup_database_environment : {"success", "failure", "raises"},
      initialize_database : {"True", "False", "raises"},
      initialize_database_schema : {"True", "False", "raises"},
      requirements_integration_import : {"ok", "ImportError"},
      RequirementsManager_db : {"ok", "raises"},
      RequirementsManager_json : {"ok", "raises"} ]

AllOk ==
    [ database_import |-> "ok", setup_database_environment |-> "success",
      initialize_database |-> "True", initialize_database_schema |-> "True",
      requirements_integration_import |-> "ok",
      RequirementsManager_db |-> "ok", RequirementsManager_json |-> "ok" ]

\* from requirements_integration import RequirementsManager
\* return RequirementsManager(use_database=use_db)
ConstructManager(in, use_db) ==
    IF in.requirements_integration_import = "ImportError"
    THEN Raise("ImportError")
    ELSE IF use_db
         THEN IF in.RequirementsManager_db = "raises"
              THEN Raise("Exception") ELSE Return(DatabaseManager)
         ELSE IF in.RequirementsManager_json = "raises"
              THEN Raise("Exception") ELSE Return(JsonManager)

\* A plausible slip: the two use_database arguments of the schema block swapped.
SchemaBlockSwapped(in) ==
    LET body ==
            IF in.initialize_database_schema = "raises" THEN Raise("Exception")
            ELSE IF in.initialize_database_schema = "False"
                 THEN ConstructManager(in, TRUE)
                 ELSE ConstructManager(in, FALSE)
    IN  IF body.kind = "raise" THEN ConstructManager(in, FALSE) ELSE body

\* The inner try of the schema step: its except Exception also catches what
\* the import and the construction of the manager raise inside the try.
SchemaBlock(in) ==
    LET body ==
            IF in.initialize_database_schema = "raises" THEN Raise("Exception")
            ELSE IF in.initialize_database_schema = "False"
                 THEN ConstructManager(in, FALSE)
                 ELSE ConstructManager(in, TRUE)
    IN  IF body.kind = "raise" THEN ConstructManager(in, FALSE) ELSE body

\* The body of the outer try.
ResolverTryBody(in) ==
    IF in.database_import # "ok" THEN Raise(in.database_import)
    ELSE IF in.setup_database_environment = "raises" THEN Raise("Exception")
    ELSE IF in.setup_database_environment = "failure" THEN ConstructManager(in, FALSE)
    ELSE IF in.initialize_database = "raises" THEN Raise("Exception")
    ELSE IF in.initialize_database = "False" THEN ConstructManager(in, FALSE)
    ELSE SchemaBlock(in)

\* except ImportError: the JSON manager, or None when its import fails; any
\* other exception of the construction leaves the handler.
OnImportError(in) ==
    LET r == ConstructManager(in, FALSE)
    IN  IF r = Raise("ImportError") THEN Return(None) ELSE r

\* except Exception: the same fallback.
OnException(in) ==
    LET r == ConstructManager(in, FALSE)
    IN  IF r = Raise("ImportError") THEN Return(None) ELSE r

\* get_cached_requirements_manager() without its cache.
get_cached_requirements_manager(in) ==
    LET body == ResolverTryBody(in)
    IN  IF body = Raise("ImportError") THEN OnImportError(in)
        ELSE IF body.kind = "raise" THEN OnException(in)
        ELSE body

\* The st.cache_resource entry before the first call that returned.
NotCached == "<not cached>"

\* Calls of the resolver made in one process (the first fills the cache).
MaxReqCalls == 2


(***************************************************************************)
(* The lazy getters get_ui_components, get_secure_ui_components and        *)
(* get_app_guide, called from several execution contexts                   *)
(***************************************************************************)

Resources == {"ui_components", "secure_ui_components", "app_guide"}

\* Execution contexts (threads) that call the getters.
NumContexts == 2

\* Calls each context makes.
MaxLazyCalls == 2

Contexts == 1..NumContexts

\* A context outside any getter.
Outside == [pc |-> "outside", fn |-> "none", value |-> 0, calls |-> 0]

(***************************************************************************)
(* check_application_health                                                *)
(***************************************************************************)

\* A health_status dict, the return_on_error dict (which has no 'warnings'
\* key) and None.
HealthDict(h, i, w) == [type |-> "dict", healthy |-> h, issues |-> i, warnings |-> w]

\* A plausible slip: the record handed back on an error names no issue.
ReturnOnErrorWithoutIssue == [type |-> "dict", healthy |-> FALSE, issues |-> <<>>]

\* return_on_error of the decorator of check_application_health.
return_on_error == [type |-> "dict", healthy |-> FALSE, issues |-> <<"Health check failed">>]
NoneValue == [type |-> "NoneType"]

\* What the probes of one check find: the memory and disk readings of psutil
\* and what memory_optimizer.optimize_memory does.
HealthInputs ==
    [ memory : {"normal", "high", "critical", "raises"},
      optimize_memory : {"completed", "other", "raises"},
      disk : {"normal", "high", "raises"} ]

\* No probe has been made.
NoProbe == [memory |-> "none", optimize_memory |-> "none", disk |-> "none"]

\* A plausible slip: the else of the status test is lost, so a completed
\* cleanup is reported twice.
MemoryCleanupWarningsNoElse(e, in) ==
    IF e["MEMORY_OPTIMIZER_AVAILABLE"]
    THEN CASE in.optimize_memory = "completed" ->
                  <<"Memory cleanup performed", "Memory cleanup attempted">>
           [] in.optimize_memory = "other"     -> <<"Memory cleanup attempted">>
           [] in.optimize_memory = "raises"    ->
                  <<"Memory cleanup failed - consider manual restart">>
    ELSE <<"Memory optimization not available">>

\* The automatic cleanup: one warning, whatever optimize_memory does.
MemoryCleanupWarnings(e, in) ==
    IF e["MEMORY_OPTIMIZER_AVAILABLE"]
    THEN CASE in.optimize_memory = "completed" -> <<"Memory cleanup performed">>
           [] in.optimize_memory = "other"     -> <<"Memory cleanup attempted">>
           [] in.optimize_memory = "raises"    ->
                  <<"Memory cleanup failed - consider manual restart">>
    ELSE <<"Memory optimization not available">>

\* The memory check: only ImportError is caught, so an exception of
\* psutil.virtual_memory() leaves the block.
MemoryBlock(e, in) ==
    IF ~e["psutil_importable"]
    THEN Return(<<"psutil not available - memory monitoring disabled">>)
    ELSE CASE in.memory = "raises" -> Raise("Exception")
           [] in.memory = "normal" -> Return(<<>>)
           [] in.memory = "high" ->
                  Return(<<"High memory usage",
                           "Try processing fewer files at once or restart the application">>
                         \o MemoryCleanupWarnings(e, in))
           [] in.memory = "critical" ->
                  Return(<<"High memory usage",
                           "Critical memory usage - consider restarting the application">>
                         \o MemoryCleanupWarnings(e, in))

\* A plausible slip: a failing disk check is passed over in silence.
DiskBlockFailureSilent(e, in) ==
    IF ~e["psutil_importable"] THEN <<>>
    ELSE CASE in.disk = "raises" -> <<>>
           [] in.disk = "high"   -> <<"Low disk space">>
           [] in.disk = "normal" -> <<>>

\* The disk check: nothing when psutil is missing, a warning for a full disk
\* and for any exception.
DiskBlock(e, in) ==
    IF ~e["psutil_importable"] THEN <<>>
    ELSE CASE in.disk = "raises" -> <<"Disk space check failed">>
           [] in.disk = "high"   -> <<"Low disk space">>
           [] in.disk = "normal" -> <<>>

\* The warning of the performance monitor check.
MonitorWarnings(e) ==
    IF ~e["PERFORMANCE_MONITOR_AVAILABLE"] \/ get_performance_monitor(e) = None
    THEN <<"Performance monitor not available">>
    ELSE <<>>

\* A plausible slip: a missing required module only warns.
HealthBodyMissingOnlyWarns(e, in) ==
    IF ~e["docx_importable"]
    THEN Return(HealthDict(TRUE, <<>>, <<"Missing required dependency">>))
    ELSE LET mem == MemoryBlock(e, in)
         IN  IF mem.kind = "raise" THEN mem
             ELSE Return(HealthDict(TRUE, <<>>,
                             MonitorWarnings(e) \o mem.value \o DiskBlock(e, in)))

\* The undecorated check_application_health.
HealthBody(e, in) ==
    IF ~e["docx_importable"]
    THEN Return(HealthDict(FALSE, <<"Missing required dependency">>, <<>>))
    ELSE LET mem == MemoryBlock(e, in)
         IN  IF mem.kind = "raise" THEN mem
             ELSE Return(HealthDict(TRUE, <<>>,
                             MonitorWarnings(e) \o mem.value \o DiskBlock(e, in)))

\* The handle_errors defined when enhancements.error_handling_enhanced is
\* missing: an exception is logged and None returned; return_on_error is ignored.
handle_errors_fallback(r) ==
    IF r.kind = "raise" THEN NoneValue ELSE r.value

\* The handle_errors of enhancements.error_handling_enhanced, as its call at
\* check_application_health uses it: an exception yields return_on_error.
handle_errors_imported(r) ==
    IF r.kind = "raise" THEN return_on_error ELSE r.value

\* @handle_errors(...): one of the two decorators.
handle_errors(e, r) ==
    IF e["ERROR_HANDLING_AVAILABLE"]
    THEN handle_errors_imported(r)
    ELSE handle_errors_fallback(r)

\* The decorated check_application_health, without its cache.
check_application_health(e, in) == handle_errors(e, HealthBody(e, in))

\* @st.cache_data(ttl=300)
TTL == 300

\* The clock moves in steps of ClockStep seconds, up to MaxClock.
ClockStep == 150
MaxClock == 450

\* Calls of check_application_health made.
MaxHealthCalls == 3

\* No entry in the cache of check_application_health.
NoneCached == [type |-> "<not cached>"]

\* A plausible slip: an entry, once stored, never expires.
HealthCacheNeverExpires ==
    health_cache # NoneCached

\* The cache entry is there and younger than the TTL.
HealthCacheHit ==
    /\ health_cache # NoneCached
    /\ now - health_cached_at < TTL

\* What a call through @st.cache_data(ttl=300) returns: the entry when it is
\* younger than the TTL, otherwise what the check now computes.
CachedHealth(in) ==
    IF HealthCacheHit THEN health_cache ELSE check_application_health(env, in)

\* The cache after that call: a computed result (None too) is stored.
HealthCacheUpdate(in) ==
    /\ health_cache' = CachedHealth(in)
    /\ health_cached_at' = IF HealthCacheHit THEN health_cached_at ELSE now

(***************************************************************************)
(* Bulk processing and async validation: the loops behind the two buttons  *)
(***************************************************************************)

\* Browser sessions that have the page open, and the largest batch.
NumSessions == 2
MaxBatch == 3
Sessions == 1..NumSessions

\* A progress value, kept as the fraction the code divides out.
Fraction(a, b) == [num |-> a, den |-> b]
Leq(p, q) == p.num * q.den <= q.num * p.den

\* A plausible slip: the loop counts from one and adds one again.
ProgressOffByOne(i, n) == Fraction(i + 2, n)

\* progress = (i + 1) / len(uploaded_files)
Progress(i, n) == Fraction(i + 1, n)

\* A session that has not pressed 'Start Bulk Processing'.  results is the
\* number of per-file outcomes the run has stored.
BulkNotStarted ==
    [pc |-> "idle", i |-> 0, progress |-> Fraction(0, 1), execution |-> 0,
     results |-> 0, status |-> "none"]

\* The names uploaded files can have.
FileNames == {"a.docx", "b.docx"}

\* No validation has been started.
NoValidation ==
    [pc |-> "idle", files |-> <<>>, failing |-> {}, i |-> 0,
     file_statuses |-> <<>>, placeholders |-> <<>>,
     validation_result |-> "none", toast |-> "none"]

(***************************************************************************)
(* Idle values: what a specification leaves the other parts at             *)
(***************************************************************************)

\* cleanup_on_exit not called: no step reached.
NoCleanup ==
    [perf_import |-> "ok", perf_cleanup |-> "ok", doc_import |-> "ok",
     doc_cleanup |-> "ok", close |-> "ok"]

FormIdle ==
    /\ file_source = "Local Upload"
    /\ all_files = 0
    /\ forms = {}
    /\ loader_tabs = {}
    /\ form_pc = "idle"

ExitIdle ==
    /\ exit_pc = "main"
    /\ main_ended = "none"
    /\ cleanup_in = NoCleanup
    /\ cleanup_log = <<>>
    /\ cleanup_calls = 0
    /\ cleanup_out = Return("none")

BatchIdle ==
    /\ bulk = [s \in Sessions |-> BulkNotStarted]
    /\ bulk_n = 0
    /\ validation = NoValidation
    /\ FormIdle
    /\ ExitIdle

SessionIdle ==
    /\ session = EmptySession
    /\ sess_before = EmptySession
    /\ sess_calls = 0

ReqIdle ==
    /\ req_in = AllOk
    /\ req_cache = NotCached
    /\ req_out = Return(NotCached)
    /\ req_calls = 0

LazyIdle ==
    /\ lazy_global = [r \in Resources |-> 0]
    /\ lazy_built = [r \in Resources |-> 0]
    /\ lazy_returned = [r \in Resources |-> {}]
    /\ ctx = [c \in Contexts |-> Outside]

HealthIdle ==
    /\ now = 0
    /\ health_cache = NoneCached
    /\ health_cached_at = 0
    /\ health_out = NoneCached
    /\ health_calls = 0
    /\ health_in = NoProbe
    /\ health_runs = 0
    /\ health_called_at = 0

MainIdle ==
    /\ pc = "idle"
    /\ click = "none"
    /\ uploaded = 0
    /\ shown = {}
    /\ health_status = NoneCached
    /\ main_flow = FALSE
    /\ outcome = "none"
    /\ constructed = {}

(***************************************************************************)
(* SpecSession: initialize_session_state called, up to MaxSessionCalls     *)
(* times, on a session in which every default key is either absent or      *)
(* holds a value that something else has stored.                           *)
(***************************************************************************)

MaxSessionCalls == 2

\* One input per set of default keys already in the session; 'initialized' is
\* only ever stored by the defaults, as True.
SessionInputs ==
    { [k \in SessionKeys |->
          IF k \notin present THEN Absent
          ELSE IF k = "initialized" THEN "True" ELSE UserValue] :
      present \in SUBSET DefaultKeys }

SessionInit ==
    /\ session \in SessionInputs
    /\ sess_before = session
    /\ sess_calls = 0
    /\ env = FullEnv
    /\ ReqIdle
    /\ LazyIdle
    /\ HealthIdle
    /\ MainIdle
    /\ BatchIdle

InitializeSessionState ==
    /\ sess_calls < MaxSessionCalls
    /\ sess_before' = session
    /\ session' = initialize_session_state(session)
    /\ sess_calls' = sess_calls + 1
    /\ UNCHANGED <<env, reqVars, lazyVars, healthVars, mainVars, batchVars, formVars, exitVars>>

SessionNext == InitializeSessionState

SpecSession == SessionInit /\ [][SessionNext]_vars

\* C1: initialize_session_state never overwrites a field the session already
\* has: every default key that was in the session when the call was entered
\* holds the same value after the call.
C1_ExistingKeysKept ==
    sess_calls > 0 =>
        \A k \in DefaultKeys :
            Has(sess_before, k) => session[k] = sess_before[k]

\* A call has returned on a session that already held 'ui_preferences' with a
\* value of its own and lacked 'initialized', so that the defaults were merged.
C1_Witness ==
    /\ sess_calls > 0
    /\ ~Has(sess_before, "initialized")
    /\ sess_before["ui_preferences"] = UserValue
    /\ session["ui_preferences"] = UserValue
    /\ session["initialized"] = "True"

\* C2: initialize_session_state inserts every default that is absent: after a
\* call every key of the defaults is in the session.
C2_AllDefaultsPresent ==
    sess_calls > 0 => \A k \in DefaultKeys : Has(session, k)

(***************************************************************************)
(* SpecReq: get_cached_requirements_manager called through its cache       *)
(***************************************************************************)

ReqInit ==
    /\ req_in \in ReqInputs
    /\ req_cache = NotCached
    /\ req_out = Return(NotCached)
    /\ req_calls = 0
    /\ env \in EnvsVarying({"PERFORMANCE_OPTIMIZATIONS_AVAILABLE",
                            "PERFORMANCE_MONITOR_AVAILABLE"})
    /\ SessionIdle
    /\ LazyIdle
    /\ HealthIdle
    /\ MainIdle
    /\ BatchIdle

\* A call through @st.cache_resource: a cached value is returned as it is, a
\* returned value (None too) is cached, an exception is passed on and not cached.
CallRequirementsManager ==
    /\ req_calls < MaxReqCalls
    /\ req_calls' = req_calls + 1
    /\ IF req_cache # NotCached
       THEN /\ req_out' = Return(req_cache)
            /\ UNCHANGED req_cache
       ELSE LET r == get_cached_requirements_manager(req_in)
            IN  /\ req_out' = r
                /\ req_cache' = IF r.kind = "return" THEN r.value ELSE NotCached
    /\ UNCHANGED <<req_in, env, sessionVars, lazyVars, healthVars, mainVars, batchVars, formVars, exitVars>>

ReqNext == CallRequirementsManager

SpecReq == ReqInit /\ [][ReqNext]_vars

\* The three database steps all succeed.
DatabaseStepsSucceed(in) ==
    /\ in.database_import = "ok"
    /\ in.setup_database_environment = "success"
    /\ in.initialize_database = "True"
    /\ in.initialize_database_schema = "True"

\* C3 as stated: the database manager is returned exactly when the three
\* steps succeed; when a step fails or throws and the manager class is
\* importable the JSON manager is returned; the JSON manager is never returned
\* when the three steps succeed.
C3_TierOrderAsStated ==
    req_calls > 0 =>
        /\ (req_out = Return(DatabaseManager)) <=> DatabaseStepsSucceed(req_in)
        /\ (/\ ~DatabaseStepsSucceed(req_in)
            /\ req_in.requirements_integration_import = "ok")
              => req_out = Return(JsonManager)
        /\ DatabaseStepsSucceed(req_in) => req_out # Return(JsonManager)

\* C3 (amended): the database manager is returned exactly when the three
\* steps succeed and the manager class is importable and its database-backed
\* construction does not raise; when a step fails or throws and the JSON
\* manager can be imported and constructed, the JSON manager is returned; when
\* the three steps succeed the JSON manager is returned only if the
\* database-backed construction raised.
C3_TierOrder ==
    req_calls > 0 =>
        /\ (req_out = Return(DatabaseManager)) <=>
              /\ DatabaseStepsSucceed(req_in)
              /\ req_in.requirements_integration_import = "ok"
              /\ req_in.RequirementsManager_db = "ok"
        /\ (/\ ~DatabaseStepsSucceed(req_in)
            /\ req_in.requirements_integration_import = "ok"
            /\ req_in.RequirementsManager_json = "ok")
              => req_out = Return(JsonManager)
        /\ (DatabaseStepsSucceed(req_in) /\ req_out = Return(JsonManager))
              => req_in.RequirementsManager_db = "raises"

\* The resolver has returned the database manager although the JSON manager
\* could have been built as well.
C3_Witness ==
    /\ req_calls > 0
    /\ DatabaseStepsSucceed(req_in)
    /\ req_in.RequirementsManager_json = "ok"
    /\ req_out = Return(DatabaseManager)

\* C5: no capability resolves to None: neither the requirements manager, nor
\* perf_optimizer, nor the performance monitor.
C5_NeverNone ==
    req_calls > 0 =>
        /\ req_out # Return(None)
        /\ perf_optimizer(env) # None
        /\ get_performance_monitor(env) # None

\* C6: get_cached_requirements_manager never raises, whatever its steps and
\* the construction of the manager do.
C6_NeverRaises ==
    req_calls > 0 => req_out.kind = "return"

(***************************************************************************)
(* SpecLazy: contexts calling the lazy getters, step by step               *)
(***************************************************************************)

\* The getters touch nothing but their globals.
LazyFrame == UNCHANGED <<env, sessionVars, reqVars, healthVars, mainVars, batchVars, formVars, exitVars>>

\* A context enters one of the getters.
LazyCall(c, r) ==
    /\ ctx[c].pc = "outside"
    /\ ctx[c].calls < MaxLazyCalls
    /\ ctx' = [ctx EXCEPT ![c] = [pc |-> "test", fn |-> r, value |-> 0,
                                  calls |-> ctx[c].calls + 1]]
    /\ UNCHANGED <<lazy_global, lazy_built, lazy_returned>>
    /\ LazyFrame

\* if _x is None:
LazyTest(c) ==
    /\ ctx[c].pc = "test"
    /\ ctx' = [ctx EXCEPT ![c].pc =
                  IF lazy_global[ctx[c].fn] = 0 THEN "construct" ELSE "return"]
    /\ UNCHANGED <<lazy_global, lazy_built, lazy_returned>>
    /\ LazyFrame

\* UIComponents(): every call of the constructor makes a new instance.
ConstructUIComponents(c) ==
    /\ ctx[c].pc = "construct"
    /\ ctx[c].fn = "ui_components"
    /\ lazy_built' = [lazy_built EXCEPT !["ui_components"] = @ + 1]
    /\ ctx' = [ctx EXCEPT ![c].pc = "store",
                          ![c].value = lazy_built["ui_components"] + 1]
    /\ UNCHANGED <<lazy_global, lazy_returned>>
    /\ LazyFrame

\* ui.secure_components.get_secure_ui_components(): the factory of another
\* module, which hands out a new instance or one it has made before.
ConstructSecureUIComponents(c) ==
    /\ ctx[c].pc = "construct"
    /\ ctx[c].fn = "secure_ui_components"
    /\ \E i \in 1..(lazy_built["secure_ui_components"] + 1) :
        /\ lazy_built' = [lazy_built EXCEPT !["secure_ui_components"] =
                              IF i > @ THEN i ELSE @]
        /\ ctx' = [ctx EXCEPT ![c].pc = "store", ![c].value = i]
    /\ UNCHANGED <<lazy_global, lazy_returned>>
    /\ LazyFrame

\* from application_guide import app_guide: the import system runs the module
\* once per process, under its lock; every import yields that module's object.
ImportAppGuide(c) ==
    /\ ctx[c].pc = "construct"
    /\ ctx[c].fn = "app_guide"
    /\ lazy_built' = [lazy_built EXCEPT !["app_guide"] = 1]
    /\ ctx' = [ctx EXCEPT ![c].pc = "store", ![c].value = 1]
    /\ UNCHANGED <<lazy_global, lazy_returned>>
    /\ LazyFrame

\* _x = <the instance>
LazyStore(c) ==
    /\ ctx[c].pc = "store"
    /\ lazy_global' = [lazy_global EXCEPT ![ctx[c].fn] = ctx[c].value]
    /\ ctx' = [ctx EXCEPT ![c].pc = "return"]
    /\ UNCHANGED <<lazy_built, lazy_returned>>
    /\ LazyFrame

\* return _x: the global is read again.
LazyReturn(c) ==
    /\ ctx[c].pc = "return"
    /\ lazy_returned' = [lazy_returned EXCEPT ![ctx[c].fn] =
                            @ \cup {lazy_global[ctx[c].fn]}]
    /\ ctx' = [ctx EXCEPT ![c].pc = "outside", ![c].fn = "none", ![c].value = 0]
    /\ UNCHANGED <<lazy_global, lazy_built>>
    /\ LazyFrame

LazyInit ==
    /\ LazyIdle
    /\ env = FullEnv
    /\ SessionIdle
    /\ ReqIdle
    /\ HealthIdle
    /\ MainIdle
    /\ BatchIdle

LazyNext ==
    \/ \E c \in Contexts : \E r \in Resources : LazyCall(c, r)
    \/ \E c \in Contexts : LazyTest(c)
    \/ \E c \in Contexts : ConstructUIComponents(c)
    \/ \E c \in Contexts : ConstructSecureUIComponents(c)
    \/ \E c \in Contexts : ImportAppGuide(c)
    \/ \E c \in Contexts : LazyStore(c)
    \/ \E c \in Contexts : LazyReturn(c)

SpecLazy == LazyInit /\ [][LazyNext]_vars

\* C4: each lazy getter constructs its resource at most once per process,
\* also under concurrent first calls, and all callers receive the same instance.
C4_ConstructedOnce ==
    \A r \in Resources :
        /\ lazy_built[r] <= 1
        /\ Cardinality(lazy_returned[r]) <= 1

(***************************************************************************)
(* SpecHealth: check_application_health called through its cache while     *)
(* time passes                                                             *)
(***************************************************************************)

HealthInit ==
    /\ HealthIdle
    /\ MainIdle
    /\ BatchIdle
    /\ env \in EnvsVarying({"ERROR_HANDLING_AVAILABLE", "PERFORMANCE_MONITOR_AVAILABLE",
                            "MEMORY_OPTIMIZER_AVAILABLE", "docx_importable",
                            "psutil_importable"})
    /\ SessionIdle
    /\ ReqIdle
    /\ LazyIdle

\* Time passes.  The clock is read only inside the call of the check, so the
\* time that passes during a run of main() is counted between the runs.
Tick ==
    /\ pc = "idle"
    /\ now + ClockStep <= MaxClock
    /\ now' = now + ClockStep
    /\ UNCHANGED <<health_cache, health_cached_at, health_out, health_calls,
                   health_in, health_runs, health_called_at>>
    /\ UNCHANGED <<env, sessionVars, reqVars, lazyVars, mainVars, batchVars, formVars, exitVars>>

\* A call through @st.cache_data(ttl=300): an entry younger than the TTL is
\* returned as it is; otherwise the check runs and what it returns is stored.
CallHealth(in) ==
    /\ health_calls < MaxHealthCalls
    /\ health_calls' = health_calls + 1
    /\ health_out' = CachedHealth(in)
    /\ HealthCacheUpdate(in)
    /\ health_in' = IF HealthCacheHit THEN health_in ELSE in
    /\ health_runs' = IF HealthCacheHit THEN health_runs ELSE health_runs + 1
    /\ health_called_at' = now
    /\ UNCHANGED now

CallApplicationHealth ==
    /\ \E in \in HealthInputs : CallHealth(in)
    /\ UNCHANGED <<env, sessionVars, reqVars, lazyVars, mainVars, batchVars, formVars, exitVars>>

HealthNext ==
    \/ Tick
    \/ CallApplicationHealth

SpecHealth == HealthInit /\ [][HealthNext]_vars

\* C9: check_application_health always hands its caller a health record with
\* the fields healthy and issues, never None and never an exception.
C9_AlwaysHealthRecord ==
    health_calls > 0 =>
        /\ health_out.type = "dict"
        /\ {"healthy", "issues"} \subseteq DOMAIN health_out

(***************************************************************************)
(* main(): one run of the script per user interaction                      *)
(***************************************************************************)

\* The truth value Python gives a session value: None and False are false.
Truthy(v) == v = "True"

\* st.session_state.get(k, d)
Get(s, k, d) == IF Has(s, k) THEN s[k] ELSE d

\* A plausible slip: the flag is reset at the start of every run.
InitAsyncFlagEveryRun(s) == [s EXCEPT !["async_initialized"] = None]

\* if 'async_initialized' not in st.session_state: ... = None
InitAsyncFlag(s) ==
    IF ~Has(s, "async_initialized")
    THEN [s EXCEPT !["async_initialized"] = None]
    ELSE s

\* st.session_state.get('debug_mode', False)
DebugMode(s) == Truthy(Get(s, "debug_mode", "False"))

\* Fast mode: the health_status main() makes up without any check.
FastHealth == HealthDict(TRUE, <<>>, <<>>)

\* What initialize_async_services() can return: the imported function reports
\* success or failure, the fallback defined when the import failed returns True.
initialize_async_services(e) ==
    IF e["ASYNC_PROCESSING_AVAILABLE"] THEN {"True", "False"} ELSE {"True"}

\* The handlers main() builds: with the resume manager, or without it when
\* get_resume_manager cannot be imported.
NewResumeTabHandler(e) ==
    IF e["resume_processor_importable"]
    THEN "ResumeTabHandler(resume_manager=v2.2)" ELSE "ResumeTabHandler()"

NewBulkProcessor(e) ==
    IF e["resume_processor_importable"]
    THEN "BulkProcessor(resume_manager=v2.2)" ELSE "BulkProcessor()"

\* force_refresh: a handler is stored and its manager lacks the async method.
ForceRefresh(e, s) ==
    /\ Has(s, "resume_tab_handler")
    /\ ~e["manager_has_async"]

\* A plausible slip: the second block tests only for the missing key.
ConstructsBulkOnlyWhenMissing(e, s) ==
    (IF ~Has(s, "resume_tab_handler") \/ ForceRefresh(e, s)
     THEN {"resume_tab_handler"} ELSE {})
    \cup (IF ~Has(s, "bulk_processor") THEN {"bulk_processor"} ELSE {})

\* The handlers the two blocks construct.
Constructs(e, s) ==
    (IF ~Has(s, "resume_tab_handler") \/ ForceRefresh(e, s)
     THEN {"resume_tab_handler"} ELSE {})
    \cup (IF ~Has(s, "bulk_processor") \/ ForceRefresh(e, s)
          THEN {"bulk_processor"} ELSE {})

\* The two handler blocks of main().
StoreHandlers(e, s) ==
    [s EXCEPT
        !["resume_tab_handler"] =
            IF ~Has(s, "resume_tab_handler") \/ ForceRefresh(e, s)
            THEN NewResumeTabHandler(e) ELSE @,
        !["bulk_processor"] =
            IF ~Has(s, "bulk_processor") \/ ForceRefresh(e, s)
            THEN NewBulkProcessor(e) ELSE @]

\* What validate_config() can hand back.
ConfigResults == {"valid", "valid_with_warnings", "invalid", "None"}

\* initialize_session_state() and the two keys main() adds after it.
MainSessionState(s) ==
    LET s1 == initialize_session_state(s) IN
    [s1 EXCEPT
        !["resume_inputs"] = IF ~Has(s1, "resume_inputs") THEN "{}" ELSE @,
        !["user_id"] = IF ~Has(s1, "user_id") THEN "uuid4" ELSE @]

\* The buttons of the page, and the largest upload.
Buttons ==
    { "about_app_button", "return_to_main", "validate_async_button",
      "bulk_start_button", "retry_async_button", "performance_test_button" }

MaxFiles == 2

\* The mode every indicator derives from the flag.
Mode(s) == IF Truthy(Get(s, "async_initialized", None)) THEN "async" ELSE "standard"

(***************************************************************************)
(* Spec: successive runs of main() in one session                          *)
(***************************************************************************)

\* What a run of main() never touches.
MainFrame ==
    UNCHANGED <<env, sess_before, sess_calls, reqVars, lazy_returned, ctx,
                now, health_out, health_calls, health_in, health_runs,
                health_called_at, batchVars, formVars, exitVars>>

\* The top of main(): page config, timers, and the async flag.  The page of
\* the previous run is replaced.
BeginRun(s, b, n) ==
    /\ pc = "idle"
    /\ session' = InitAsyncFlag(s)
    /\ click' = b
    /\ uploaded' = n
    /\ shown' = {}
    /\ main_flow' = FALSE
    /\ outcome' = "running"
    /\ constructed' = {}
    /\ pc' = "health"
    /\ UNCHANGED <<health_status, health_cache, health_cached_at,
                   lazy_global, lazy_built>>
    /\ MainFrame

\* The script runs again with no interaction: the first load of the page,
\* a reload, or the restart st.rerun() asked for.
RunAgain ==
    /\ pc = "idle"
    /\ BeginRun(session, "none", uploaded)

\* The user clicks a button the page shows.
ClickButton ==
    /\ outcome # "rerun"
    /\ \E b \in Buttons \cap shown : BeginRun(session, b, uploaded)

\* The user changes the files of the upload widget the page shows.
UploadFiles ==
    /\ outcome # "rerun"
    /\ "file_uploader" \in shown
    /\ \E n \in 0..MaxFiles : n # uploaded /\ BeginRun(session, "none", n)

\* debug_mode is set from outside app.py, which only reads it: by a widget of
\* the sidebar the page shows.
SetDebugMode ==
    /\ outcome # "rerun"
    /\ "sidebar" \in shown
    /\ \E d \in {"True", "False"} :
        /\ d # session["debug_mode"]
        /\ BeginRun([session EXCEPT !["debug_mode"] = d], "none", uploaded)

\* The run is over: main() returned, raised into its handle_errors wrapper,
\* or was ended by st.stop() or st.rerun().
EndRun(o) ==
    /\ pc' = "idle"
    /\ outcome' = o
    /\ click' = "none"
    /\ health_status' = NoneCached

\* The probe outcomes the runs of main() are checked with: main() reads of
\* a health_status only 'healthy', 'issues' and 'warnings', so one outcome
\* stands for each kind of record (no warning, a warning, a probe raising);
\* SpecHealth covers the check itself over all of HealthInputs.
MainHealthInputs ==
    { in \in HealthInputs :
        /\ in.memory \in {"normal", "critical", "raises"}
        /\ in.optimize_memory = "completed"
        /\ in.disk = "normal" }

\* The health gate.  In debug mode the check is called through its cache;
\* health_status['healthy'] on None is a TypeError.
MainHealth ==
    /\ pc = "health"
    /\ \E in \in MainHealthInputs :
        LET hs == IF DebugMode(session) THEN CachedHealth(in) ELSE FastHealth IN
        /\ IF DebugMode(session)
           THEN HealthCacheUpdate(in)
           ELSE UNCHANGED <<health_cache, health_cached_at>>
        /\ IF hs.type = "NoneType"
           THEN /\ EndRun("raised")
                /\ UNCHANGED <<shown, main_flow>>
           ELSE IF ~hs.healthy
           THEN /\ EndRun("returned")
                /\ shown' = shown \cup {"health_check_failed"}
                /\ UNCHANGED main_flow
           ELSE /\ pc' = "handlers"
                /\ health_status' = hs
                /\ main_flow' = TRUE
                /\ UNCHANGED <<shown, outcome, click>>
    /\ UNCHANGED <<session, uploaded, lazy_global, lazy_built>>
    /\ UNCHANGED constructed
    /\ MainFrame

\* The two session-scoped handlers.
MainHandlers ==
    /\ pc = "handlers"
    /\ session' = StoreHandlers(env, session)
    /\ constructed' = Constructs(env, session)
    /\ pc' = "config"
    /\ UNCHANGED <<click, uploaded, shown, health_status, main_flow, outcome,
                   health_cache, health_cached_at, lazy_global, lazy_built>>
    /\ MainFrame

\* What main() puts on the page for a result of validate_config().
ConfigShows(cv, s) ==
    CASE cv = "None" /\ DebugMode(s) -> {"config_no_result"}
      [] cv = "None" /\ ~DebugMode(s) -> {"config_skipped"}
      [] cv = "invalid" -> {"config_error"}
      [] cv = "valid_with_warnings" -> {"config_warnings"}
      [] cv = "valid" -> {}

\* A plausible slip: st.stop() under 'if not debug_mode' with the hint.
ConfigStopsOutsideDebugOnly(cv, s) ==
    \/ cv = "None" /\ DebugMode(s)
    \/ cv = "invalid" /\ ~DebugMode(s)

\* The results on which main() calls st.stop(): no result in debug mode, and
\* a result that is not valid.
ConfigStops(cv, s) ==
    \/ cv = "None" /\ DebugMode(s)
    \/ cv = "invalid"

\* validate_config() and what main() makes of its result.
MainConfig ==
    /\ pc = "config"
    /\ \E cv \in ConfigResults :
        /\ shown' = shown \cup ConfigShows(cv, session)
        /\ IF ConfigStops(cv, session)
           THEN EndRun("stopped")
           ELSE /\ pc' = "session"
                /\ UNCHANGED <<outcome, health_status, click>>
    /\ UNCHANGED <<session, uploaded, main_flow,
                   health_cache, health_cached_at, lazy_global, lazy_built>>
    /\ UNCHANGED constructed
    /\ MainFrame

\* initialize_session_state(), resume_inputs, user_id.
MainSessionInit ==
    /\ pc = "session"
    /\ session' = MainSessionState(session)
    /\ pc' = "render"
    /\ UNCHANGED <<click, uploaded, shown, health_status, main_flow, outcome,
                   health_cache, health_cached_at, lazy_global, lazy_built>>
    /\ UNCHANGED constructed
    /\ MainFrame

\* A lazy getter called from the one thread of the run: the resource is
\* built on the first call.
SequentialGet(g, rs) ==
    [r \in Resources |-> IF r \in rs /\ g[r] = 0 THEN 1 ELSE g[r]]

LazyGetters(rs) ==
    /\ lazy_global' = SequentialGet(lazy_global, rs)
    /\ lazy_built' = SequentialGet(lazy_built, rs)

\* The text of each processing-mode indicator.
IndicatorText ==
    [header   |-> [async |-> "header: High Performance", standard |-> "header: Standard Mode"],
     metric   |-> [async |-> "metric: Async", standard |-> "metric: Standard"],
     bulk     |-> [async |-> "bulk: High Performance Mode Active",
                   standard |-> "bulk: Standard Mode Only"],
     settings |-> [async |-> "settings: Async processing enabled",
                   standard |-> "settings: Async processing disabled"]]

\* A plausible slip: the settings panel tests that the key is in the
\* session, not that its value is true.
IndicatorSettingsByPresence(name, s) ==
    IF name = "settings"
    THEN IndicatorText[name][IF Has(s, "async_initialized") THEN "async" ELSE "standard"]
    ELSE IndicatorText[name][Mode(s)]

\* An indicator: the text for the mode of the session when it is rendered.
Indicator(name, s) == IndicatorText[name][Mode(s)]

\* The title row and its status indicator.
HeaderRow(s) == {Indicator("header", s)}

\* The Resume Customizer tab after its sidebar: the upload widget, and for
\* uploaded files the metrics, the async validation button and the forms.
CustomizerTab(s, n, b) ==
    {"file_uploader"}
    \cup (IF n > 0 THEN {Indicator("metric", s), "resume_forms"} ELSE {})
    \cup (IF n > 1 /\ Truthy(Get(s, "async_initialized", None))
          THEN {"validate_async_button"}
               \cup (IF b = "validate_async_button" THEN {"validation_result"} ELSE {})
          ELSE {})

\* The Bulk Processor tab.
BulkTab(s, n, b) ==
    {Indicator("bulk", s)}
    \cup (IF n > 0
          THEN {"bulk_start_button"}
               \cup (IF b = "bulk_start_button" THEN {"bulk_progress"} ELSE {})
          ELSE {"no_resumes_uploaded"})

\* The performance panel of the Settings tab, up to its button.
PerformancePanel(s, b) ==
    IF Truthy(Get(s, "async_initialized", None))
    THEN {Indicator("settings", s), "performance_test_button"}
         \cup (IF b = "performance_test_button" THEN {"performance_test_result"} ELSE {})
    ELSE {Indicator("settings", s), "retry_async_button"}

\* The run presses on 'Retry Async Init'.
RetryPressed(s, b) ==
    /\ ~Truthy(Get(s, "async_initialized", None))
    /\ b = "retry_async_button"

\* What performance_monitor.get_performance_summary() can do.
PerformanceSummaries == {"summary", "None", "raises"}

\* summary as the block under 'Show Detailed Performance Data' has it before
\* it calls summary.get: None unless the monitor is there and its call
\* returned.
CollectedSummary(e, sm) ==
    IF e["PERFORMANCE_MONITOR_AVAILABLE"] /\ get_performance_monitor(e) # None
    THEN (IF sm = "raises" THEN None ELSE sm)
    ELSE None

\* The Monitoring tab of the settings: the checkbox, and when it is ticked
\* the data; summary.get on None is an AttributeError nothing catches.
MonitoringTab(e, s, sm) ==
    LET ticked == Truthy(Get(s, "settings_performance_checkbox", "False"))
        raises == ticked /\ CollectedSummary(e, sm) = None
    IN  [raises |-> raises,
         shown  |-> {"settings_performance_checkbox"}
                    \cup (IF ticked /\ ~raises THEN {"performance_data"} ELSE {})]

\* The rest of the Settings tab after the performance panel, to the end of
\* main() or to the exception that ends the run.
FinishTabs(base) ==
    \E sm \in PerformanceSummaries :
        LET m == MonitoringTab(env, session, sm) IN
        /\ shown' = base \cup {"health_display"} \cup m.shown
        /\ EndRun(IF m.raises THEN "raised" ELSE "returned")

\* A plausible slip: the flag is read and never reset.
ConsumeRedirectKeepingFlag(s) == s

\* st.session_state.redirect_to_about = False, in the run that shows the guide.
ConsumeRedirect(s) == [s EXCEPT !["redirect_to_about"] = "False"]

\* The redirect to the guide: the flag is consumed and the guide replaces
\* the tabs.
MainRenderAbout ==
    /\ pc = "render"
    /\ Truthy(Get(session, "redirect_to_about", "False"))
    /\ session' = ConsumeRedirect(session)
    /\ IF click = "return_to_main"
       THEN /\ shown' = shown \cup HeaderRow(session) \cup {"return_to_main"}
            /\ LazyGetters({"ui_components", "secure_ui_components"})
            /\ EndRun("rerun")
       ELSE /\ shown' = shown \cup HeaderRow(session)
                            \cup {"return_to_main", "application_guide"}
            /\ LazyGetters(Resources)
            /\ EndRun("returned")
    /\ UNCHANGED <<uploaded, main_flow, health_cache, health_cached_at>>
    /\ UNCHANGED constructed
    /\ MainFrame

\* The tabs.  The About button restarts the run from the sidebar; a
\* successful 'Retry Async Init' restarts it from the Settings tab.
MainRenderTabs ==
    /\ pc = "render"
    /\ ~Truthy(Get(session, "redirect_to_about", "False"))
    /\ LET sidebar == shown \cup HeaderRow(session)
                            \cup {"tabs", "sidebar", "about_app_button"}
           upto_settings ==
               sidebar \cup CustomizerTab(session, uploaded, click)
                       \cup BulkTab(session, uploaded, click)
                       \cup {"requirements_tab", "application_guide_tab"}
                       \cup PerformancePanel(session, click)
       IN
       IF click = "about_app_button"
       THEN /\ session' = [session EXCEPT !["redirect_to_about"] = "True"]
            /\ shown' = sidebar
            /\ LazyGetters({"ui_components", "secure_ui_components"})
            /\ EndRun("rerun")
       ELSE IF RetryPressed(session, click)
       THEN \E success \in initialize_async_services(env) :
            /\ session' = [session EXCEPT !["async_initialized"] = success]
            /\ LazyGetters(Resources)
            /\ IF Truthy(success)
               THEN /\ shown' = upto_settings
                    /\ EndRun("rerun")
               ELSE FinishTabs(upto_settings \cup {"retry_failed"})
       ELSE /\ FinishTabs(upto_settings)
            /\ LazyGetters(Resources)
            /\ UNCHANGED session
    /\ UNCHANGED <<uploaded, main_flow, health_cache, health_cached_at>>
    /\ UNCHANGED constructed
    /\ MainFrame

Init ==
    /\ MainIdle
    /\ BatchIdle
    /\ env \in EnvsVarying({"ASYNC_PROCESSING_AVAILABLE", "ERROR_HANDLING_AVAILABLE",
                            "docx_importable", "resume_processor_importable",
                            "manager_has_async"})
    /\ SessionIdle
    /\ ReqIdle
    /\ LazyIdle
    /\ HealthIdle

Next ==
    \/ RunAgain
    \/ ClickButton
    \/ UploadFiles
    \/ SetDebugMode
    \/ MainHealth
    \/ MainHandlers
    \/ MainConfig
    \/ MainSessionInit
    \/ MainRenderAbout
    \/ MainRenderTabs
    \/ Tick

Spec == Init /\ [][Next]_vars

\* C7: in no reachable state is the 'Validate All Files (Async)' button on
\* the page while ASYNC_PROCESSING_AVAILABLE is false, whatever the user has
\* done ('Retry Async Init' included).
C7_ButtonOnlyWhenAsyncAvailable ==
    "validate_async_button" \in shown => env["ASYNC_PROCESSING_AVAILABLE"]

\* C8: once async_initialized is a key of the session, no step of a run of
\* main() changes its value except the press on 'Retry Async Init'.
C8_ChangedOnlyByRetry ==
    [][ ( /\ Has(session, "async_initialized")
          /\ ~(pc = "render" /\ RetryPressed(session, click)) )
        => session'["async_initialized"] = session["async_initialized"] ]_vars

\* A run that rendered the tabs without pressing 'Retry Async Init' has ended
\* and the flag still holds the False an earlier failed retry stored.
C8_Witness ==
    /\ pc = "idle"
    /\ outcome = "returned"
    /\ "tabs" \in shown
    /\ "retry_failed" \notin shown
    /\ session["async_initialized"] = "False"

\* The run is still before the main flow, or it ended there: no handler was
\* built, the session state was not initialised and no tab was rendered.
HaltedBeforeMainFlow ==
    /\ pc \in {"idle", "health"}
    /\ ~main_flow
    /\ "tabs" \notin shown

\* C10 as stated: when the required module docx cannot be imported a run of
\* main() halts before the main flow, for every value of debug_mode.
C10_HaltsForEveryDebugMode ==
    ~env["docx_importable"] => HaltedBeforeMainFlow

\* C10: when the required module docx cannot be imported and debug_mode is
\* on, a run of main() halts before the main flow.
C10_HaltsInDebugMode ==
    (~env["docx_importable"] /\ DebugMode(session)) => HaltedBeforeMainFlow

\* A run with debug_mode on and docx missing has ended at the health gate.
C10_Witness ==
    /\ ~env["docx_importable"]
    /\ DebugMode(session)
    /\ pc = "idle"
    /\ outcome = "returned"
    /\ "health_check_failed" \in shown

(***************************************************************************)
(* Properties of check_application_health (SpecHealth)                     *)
(***************************************************************************)

\* w is one of the warnings of the record r.
HasWarning(r, w) == \E i \in 1..Len(r.warnings) : r.warnings[i] = w

\* The record is healthy and has no issue: only warnings were added.
OnlyWarnings(r) ==
    /\ r.type = "dict"
    /\ "warnings" \in DOMAIN r
    /\ r.healthy = TRUE
    /\ r.issues = <<>>

\* The body of the check got as far as the memory reading, and past it.
MemoryRead == env["docx_importable"] /\ env["psutil_importable"]
DiskRead == MemoryRead /\ health_in.memory # "raises"

CleanupWarnings ==
    { "Memory cleanup performed", "Memory cleanup attempted",
      "Memory optimization not available",
      "Memory cleanup failed - consider manual restart" }

\* The warning the cleanup is to leave for what optimize_memory did.
CleanupOutcome ==
    IF ~env["MEMORY_OPTIMIZER_AVAILABLE"] THEN "Memory optimization not available"
    ELSE IF health_in.optimize_memory = "completed" THEN "Memory cleanup performed"
    ELSE IF health_in.optimize_memory = "other" THEN "Memory cleanup attempted"
    ELSE "Memory cleanup failed - consider manual restart"

\* C12: with memory above 90% the record has exactly one warning about the
\* cleanup, the one that describes its outcome; also when optimize_memory
\* raises, the record is returned with healthy true and no issue.
C12_OneCleanupWarning ==
    (health_calls > 0 /\ MemoryRead /\ health_in.memory \in {"high", "critical"}) =>
        /\ OnlyWarnings(health_out)
        /\ Cardinality({ i \in 1..Len(health_out.warnings) :
                           health_out.warnings[i] \in CleanupWarnings }) = 1
        /\ HasWarning(health_out, CleanupOutcome)

\* A check with memory above 95% whose call of optimize_memory raised.
C12_Witness ==
    /\ health_calls > 0
    /\ MemoryRead
    /\ env["MEMORY_OPTIMIZER_AVAILABLE"]
    /\ health_in.memory = "critical"
    /\ health_in.optimize_memory = "raises"
    /\ OnlyWarnings(health_out)
    /\ HasWarning(health_out, "Memory cleanup failed - consider manual restart")

\* The step is a call of check_application_health.
IsHealthCall == health_calls' = health_calls + 1

\* C13 as stated: a call made less than the TTL after the previous call
\* returns what that call returned, and the sub-checks do not run.
C13_CallsLessThanTTLApart ==
    [][ (IsHealthCall /\ health_calls > 0 /\ now - health_called_at < TTL)
        => (health_out' = health_out /\ health_runs' = health_runs) ]_vars

\* C13: a call made less than the TTL after the snapshot was computed
\* returns that snapshot and the sub-checks do not run; a call made when no
\* snapshot is stored, or TTL seconds or more after it was computed, runs
\* the sub-checks and returns and stores what they now find.
C13_TTLFromComputation ==
    [][ IsHealthCall =>
          IF health_cache # NoneCached /\ now - health_cached_at < TTL
          THEN /\ health_out' = health_cache
               /\ health_runs' = health_runs
               /\ health_cache' = health_cache
               /\ health_cached_at' = health_cached_at
          ELSE /\ health_runs' = health_runs + 1
               /\ health_out' = check_application_health(env, health_in')
               /\ health_cache' = health_out'
               /\ health_cached_at' = now ]_vars

\* Three calls were made: one found the entry fresh, one found it expired.
C13_Witness ==
    /\ health_calls = 3
    /\ health_runs = 2
    /\ health_cached_at >= TTL

(***************************************************************************)
(* SpecBulk: 'Start Bulk Processing' in the sessions that have the page    *)
(***************************************************************************)

\* Times a session presses the button.
MaxBulkStarts == 2

BulkFrame ==
    UNCHANGED <<env, sessionVars, reqVars, lazyVars, healthVars, mainVars,
                bulk_n, validation, formVars, exitVars>>

\* A new run of the block under the button: st.progress(0).
NewExecution(b) ==
    [pc |-> "running", i |-> 0, progress |-> Fraction(0, 1),
     execution |-> b.execution + 1, results |-> 0, status |-> "none"]

\* The button is pressed while the session runs no bulk processing.
BulkStart(s) ==
    /\ bulk[s].pc # "running"
    /\ bulk[s].execution < MaxBulkStarts
    /\ bulk' = [bulk EXCEPT ![s] = NewExecution(@)]
    /\ BulkFrame

\* The button is pressed again while the loop runs: Streamlit ends the
\* running script at its next call and runs the script anew with the button
\* pressed.  Nothing in the block looks for a run under way.
BulkRestart(s) ==
    /\ bulk[s].pc = "running"
    /\ bulk[s].execution < MaxBulkStarts
    /\ bulk' = [bulk EXCEPT ![s] = NewExecution(@)]
    /\ BulkFrame

\* One turn of the loop over uploaded_files; the loop stores no outcome.
BulkFile(s) ==
    /\ bulk[s].pc = "running"
    /\ bulk[s].i < bulk_n
    /\ bulk' = [bulk EXCEPT ![s].progress = Progress(bulk[s].i, bulk_n),
                            ![s].i = @ + 1,
                            ![s].status = "Processing"]
    /\ BulkFrame

\* After the loop: overall_progress.progress(1.0) and the success text.
BulkFinish(s) ==
    /\ bulk[s].pc = "running"
    /\ bulk[s].i = bulk_n
    /\ bulk' = [bulk EXCEPT ![s].progress = Fraction(1, 1),
                            ![s].status = "All files processed successfully",
                            ![s].pc = "done"]
    /\ BulkFrame

\* The user stops the running script (Streamlit's Stop, or another widget):
\* the run ends where it is; the block has no cancellation of its own.
BulkStop(s) ==
    /\ bulk[s].pc = "running"
    /\ bulk' = [bulk EXCEPT ![s].pc = "interrupted"]
    /\ BulkFrame

BulkInit ==
    /\ bulk = [s \in Sessions |-> BulkNotStarted]
    /\ bulk_n \in 1..MaxBatch
    /\ validation = NoValidation
    /\ env = FullEnv
    /\ SessionIdle
    /\ ReqIdle
    /\ LazyIdle
    /\ HealthIdle
    /\ MainIdle
    /\ FormIdle
    /\ ExitIdle

BulkNext ==
    \/ \E s \in Sessions : BulkStart(s)
    \/ \E s \in Sessions : BulkRestart(s)
    \/ \E s \in Sessions : BulkFile(s)
    \/ \E s \in Sessions : BulkFinish(s)
    \/ \E s \in Sessions : BulkStop(s)

SpecBulk == BulkInit /\ [][BulkNext]_vars

\* C14: within one bulk processing the progress value never decreases, stays
\* within [0, 1], and is exactly 1 when the processing has settled.
C14_ProgressMonotone ==
    /\ [](\A s \in Sessions :
            /\ Leq(Fraction(0, 1), bulk[s].progress)
            /\ Leq(bulk[s].progress, Fraction(1, 1))
            /\ bulk[s].pc = "done" => bulk[s].progress.num = bulk[s].progress.den)
    /\ [][\A s \in Sessions :
            bulk'[s].execution = bulk[s].execution
                => Leq(bulk[s].progress, bulk'[s].progress)]_vars

\* A bulk processing of the largest batch has settled.
C14_Witness ==
    \E s \in Sessions :
        /\ bulk_n = MaxBatch
        /\ bulk[s].pc = "done"
        /\ bulk[s].i = bulk_n
        /\ bulk[s].progress = Fraction(1, 1)

(***************************************************************************)
(* SpecValidate: the block under 'Validate All Files (Async)'              *)
(***************************************************************************)

ValidateFrame ==
    UNCHANGED <<env, sessionVars, reqVars, lazyVars, healthVars, mainVars,
                bulk, bulk_n, formVars, exitVars>>

\* The batches the button can be pressed on: more than one file, names that
\* may repeat, and the files whose validation does not succeed.
Batches ==
    UNION { [1..n -> FileNames] : n \in 2..MaxBatch }

\* The names of a batch.
Names(files) == { files[i] : i \in 1..Len(files) }

\* The last row that has the name.
LastRow(files, name) ==
    CHOOSE i \in 1..Len(files) :
        /\ files[i] = name
        /\ \A j \in 1..Len(files) : files[j] = name => j <= i

\* The validate_files_async defined when the async module is missing: it
\* reports success without looking at the files.
validate_files_async_fallback(failing) == "success"

\* validate_files_async of infrastructure.async_processing: success when
\* every file of the batch is valid.
validate_files_async_imported(failing) ==
    IF failing = {} THEN "success" ELSE "failed"

validate_files_async(e, failing) ==
    IF e["ASYNC_PROCESSING_AVAILABLE"]
    THEN validate_files_async_imported(failing)
    ELSE validate_files_async_fallback(failing)

\* The rows of the progress container: a text and an empty placeholder for
\* each file; file_statuses keeps the placeholder under the file's name.
ValidateRows ==
    /\ validation.pc = "idle"
    /\ validation' =
          [validation EXCEPT
              !.pc = "call",
              !.placeholders = [i \in 1..Len(validation.files) |-> "empty"],
              !.file_statuses = [name \in Names(validation.files) |->
                                    LastRow(validation.files, name)]]
    /\ ValidateFrame

\* validation_result = validate_files_async([...])
ValidateCall ==
    /\ validation.pc = "call"
    /\ validation' =
          [validation EXCEPT
              !.pc = "loop",
              !.validation_result = validate_files_async(env, validation.failing)]
    /\ ValidateFrame

\* One turn of the loop after the call: the file's entry is set to Valid.
ValidateReport ==
    /\ validation.pc = "loop"
    /\ validation.i < Len(validation.files)
    /\ LET name == validation.files[validation.i + 1] IN
       validation' =
          [validation EXCEPT
              !.i = @ + 1,
              !.placeholders[validation.file_statuses[name]] = "Valid"]
    /\ ValidateFrame

\* After the loop: the toast tells the result of the call.
ValidateSettle ==
    /\ validation.pc = "loop"
    /\ validation.i = Len(validation.files)
    /\ validation' =
          [validation EXCEPT
              !.pc = "done",
              !.toast = IF validation.validation_result = "success"
                        THEN "All files validated successfully"
                        ELSE "Validation failed"]
    /\ ValidateFrame

ValidateInit ==
    /\ \E files \in Batches : \E failing \in SUBSET (1..Len(files)) :
          validation = [NoValidation EXCEPT !.files = files, !.failing = failing]
    /\ bulk = [s \in Sessions |-> BulkNotStarted]
    /\ bulk_n = 0
    /\ env \in EnvsVarying({"ASYNC_PROCESSING_AVAILABLE"})
    /\ SessionIdle
    /\ ReqIdle
    /\ LazyIdle
    /\ HealthIdle
    /\ MainIdle
    /\ FormIdle
    /\ ExitIdle

ValidateNext ==
    \/ ValidateRows
    \/ ValidateCall
    \/ ValidateReport
    \/ ValidateSettle

SpecValidate == ValidateInit /\ [][ValidateNext]_vars

\* C15: when the validation has ended every submitted file has exactly one
\* outcome entry: as many entries as files, and no row left without outcome.
C15_OneEntryPerFile ==
    validation.pc = "done" =>
        /\ Cardinality(DOMAIN validation.file_statuses) = Len(validation.files)
        /\ \A i \in 1..Len(validation.files) : validation.placeholders[i] # "empty"

\* The outcome the page shows for the i-th file.
Reported(i) == validation.placeholders[validation.file_statuses[validation.files[i]]]

\* C16: when the validation has ended, a file whose validation did not
\* succeed is reported as failed and every other file as valid.
C16_FailedFileReportedFailed ==
    validation.pc = "done" =>
        \A i \in 1..Len(validation.files) :
            Reported(i) = IF i \in validation.failing THEN "Failed" ELSE "Valid"

(***************************************************************************)
(* Properties of the bulk processing as a task (SpecBulk)                  *)
(***************************************************************************)

\* C17: pressing 'Start Bulk Processing' while the processing started by an
\* earlier press still runs starts no second execution: the session stays
\* with the execution it has, and at most one execution is in flight.
C17_NoSecondExecution ==
    /\ [](Cardinality({ s \in Sessions : bulk[s].pc = "running" }) <= 1)
    /\ [][\A s \in Sessions :
            bulk[s].pc = "running" => bulk'[s].execution = bulk[s].execution]_vars

\* C18: a bulk processing that was cancelled while it ran is settled as
\* Cancelled and the outcomes of the files it had processed are in its
\* result.
C18_CancelledKeepsOutcomes ==
    \A s \in Sessions :
        bulk[s].pc = "interrupted" =>
            /\ bulk[s].status = "Cancelled"
            /\ bulk[s].results = bulk[s].i

(***************************************************************************)
(* Properties of the runs of main() (Spec), continued                      *)
(***************************************************************************)

\* C19: once a run has stored resume_tab_handler and bulk_processor, no
\* later run of the session constructs a handler; the stored instances stay.
C19_HandlersBuiltOnce ==
    [][ ( /\ pc = "handlers"
          /\ Has(session, "resume_tab_handler")
          /\ Has(session, "bulk_processor") )
        => /\ constructed' = {}
           /\ session'["resume_tab_handler"] = session["resume_tab_handler"]
           /\ session'["bulk_processor"] = session["bulk_processor"] ]_vars

(***************************************************************************)
(* SpecMonitoring: runs of main() in a session whose user only ticks and   *)
(* unticks 'Show Detailed Performance Data'                                *)
(***************************************************************************)

\* The user ticks or unticks the checkbox the page shows; its value is kept
\* under the widget's key.
TogglePerformanceData ==
    /\ outcome # "rerun"
    /\ "settings_performance_checkbox" \in shown
    /\ BeginRun([session EXCEPT !["settings_performance_checkbox"] =
                    IF Truthy(@) THEN "False" ELSE "True"],
                "none", uploaded)

MonitoringInit ==
    /\ MainIdle
    /\ BatchIdle
    /\ env \in EnvsVarying({"PERFORMANCE_MONITOR_AVAILABLE", "ERROR_HANDLING_AVAILABLE"})
    /\ SessionIdle
    /\ ReqIdle
    /\ LazyIdle
    /\ HealthIdle

MonitoringNext ==
    \/ RunAgain
    \/ TogglePerformanceData
    \/ MainHealth
    \/ MainHandlers
    \/ MainConfig
    \/ MainSessionInit
    \/ MainRenderTabs

SpecMonitoring == MonitoringInit /\ [][MonitoringNext]_vars

\* C20: when the optional performance monitor is missing no run of main()
\* ends with an exception, whatever the user does.
C20_AbsenceNeverRaises ==
    ~env["PERFORMANCE_MONITOR_AVAILABLE"] => outcome # "raised"

(***************************************************************************)
(* SpecLifecycle: runs of main() in a session whose tab handlers store     *)
(* values under the keys that have defaults                                *)
(***************************************************************************)

\* The keys the handlers of the tabs store the user's texts under.
StoredKeys == {"resume_text", "job_description"}

\* A handler stores what the user entered under its key; the script runs again.
HandlerStoresValue ==
    /\ outcome # "rerun"
    /\ "sidebar" \in shown
    /\ \E k \in StoredKeys :
        /\ session[k] # UserValue
        /\ BeginRun([session EXCEPT ![k] = UserValue], "none", uploaded)

LifecycleInit ==
    /\ MainIdle
    /\ BatchIdle
    /\ env \in EnvsVarying({"ERROR_HANDLING_AVAILABLE"})
    /\ SessionIdle
    /\ ReqIdle
    /\ LazyIdle
    /\ HealthIdle

LifecycleNext ==
    \/ RunAgain
    \/ ClickButton
    \/ HandlerStoresValue
    \/ MainHealth
    \/ MainHandlers
    \/ MainConfig
    \/ MainSessionInit
    \/ MainRenderAbout
    \/ MainRenderTabs

SpecLifecycle == LifecycleInit /\ [][LifecycleNext]_vars

\* C21: once 'initialized' is a key of the session, every step of a run of
\* main() and every user action leaves it a key, and a later
\* initialize_session_state changes the value of no key that has a default.
C21_ForwardOnly ==
    [][ Has(session, "initialized")
        => /\ Has(session', "initialized")
           /\ pc = "session" =>
                \A k \in DefaultKeys : session'[k] = session[k] ]_vars

\* A later run has passed initialize_session_state with a stored value kept.
C21_Witness ==
    /\ pc = "render"
    /\ Has(session, "initialized")
    /\ session["resume_text"] = UserValue

(***************************************************************************)
(* SpecForms: the 'Resume Input Forms' expander over every number of files *)
(***************************************************************************)

\* The largest number of files selected.
MaxUpload == 6

\* Above this many files the expander uses progressive loading; the
\* fallback renders this many tabs.
FormThreshold == 5

FileSources == {"Local Upload", "Google Drive"}

\* The branch of the expander taken for n files.
FormsBranch(e, n) ==
    IF n > FormThreshold
    THEN IF e["PROGRESSIVE_LOADER_AVAILABLE"] THEN "progressive" ELSE "fallback_tabs"
    ELSE IF n > 1 THEN "standard_tabs" ELSE "single"

\* The files the loop of the branch calls tab_handler.render_tab on: the
\* fallback slices all_files[:5].
FormFiles(e, n) ==
    CASE FormsBranch(e, n) = "progressive" -> {}
      [] FormsBranch(e, n) = "fallback_tabs" -> 1..FormThreshold
      [] OTHER -> 1..n

FormsFrame ==
    UNCHANGED <<env, sessionVars, reqVars, lazyVars, healthVars, mainVars,
                batchVars, exitVars>>

\* The user selects files from a source and the script runs: all_files is
\* what the upload widget or the Drive picker returned; 'if all_files:'.
SelectFiles ==
    /\ form_pc # "forms"
    /\ \E src \in FileSources, n \in 0..MaxUpload :
        /\ file_source' = src
        /\ all_files' = n
        /\ form_pc' = IF n > 0 THEN "forms" ELSE "done"
    /\ forms' = {}
    /\ loader_tabs' = {}
    /\ FormsFrame

\* More than five files and the loader imported: one tab_data entry per
\* file, all handed to render_tabs_progressive.
HandToLoader ==
    /\ form_pc = "forms"
    /\ FormsBranch(env, all_files) = "progressive"
    /\ loader_tabs' = 1..all_files
    /\ form_pc' = "done"
    /\ UNCHANGED <<file_source, all_files, forms>>
    /\ FormsFrame

\* One pass of the loop of the other branches: tab_handler.render_tab(file_obj).
RenderForm ==
    /\ form_pc = "forms"
    /\ FormsBranch(env, all_files) # "progressive"
    /\ \E i \in FormFiles(env, all_files) \ forms :
        /\ \A j \in FormFiles(env, all_files) \ forms : i <= j
        /\ forms' = forms \cup {i}
    /\ UNCHANGED <<file_source, all_files, loader_tabs, form_pc>>
    /\ FormsFrame

\* The loop is over.
FormsRendered ==
    /\ form_pc = "forms"
    /\ FormsBranch(env, all_files) # "progressive"
    /\ FormFiles(env, all_files) \subseteq forms
    /\ form_pc' = "done"
    /\ UNCHANGED <<file_source, all_files, forms, loader_tabs>>
    /\ FormsFrame

FormsInit ==
    /\ MainIdle
    /\ BatchIdle
    /\ env \in EnvsVarying({"PROGRESSIVE_LOADER_AVAILABLE"})
    /\ SessionIdle
    /\ ReqIdle
    /\ LazyIdle
    /\ HealthIdle

FormsNext ==
    \/ SelectFiles
    \/ HandToLoader
    \/ RenderForm
    \/ FormsRendered

SpecForms == FormsInit /\ [][FormsNext]_vars

\* C22: when the expander has been rendered every file of the run has its
\* input form, rendered by app.py or handed to the progressive loader.
C22_EveryFileHasForm ==
    form_pc = "done" =>
        \A i \in 1..all_files : i \in forms \cup loader_tabs

(***************************************************************************)
(* SpecExit: the script run as __main__: main(), then cleanup_on_exit      *)
(***************************************************************************)

\* What the steps of cleanup_on_exit can do: each import is found or not,
\* each cleanup call returns or raises an Exception.
CleanupInputs ==
    [perf_import : {"ok", "ImportError"}, perf_cleanup : {"ok", "raises"},
     doc_import : {"ok", "ImportError"}, doc_cleanup : {"ok", "raises"},
     close : {"ok", "raises"}]

\* How main() can end: it returns, st.stop() or st.rerun() ends the run, or
\* an exception leaves it.
MainEndings == {"returned", "stopped", "rerun", "raised"}

\* The block 'Cleanup document resources': the inner handler passes over
\* a failed import only.
DocumentStep(in) ==
    IF in.doc_import = "ImportError" THEN [log |-> <<>>, raised |-> FALSE]
    ELSE [log |-> <<"cleanup_document_resources">>, raised |-> in.doc_cleanup = "raises"]

\* The block 'Cleanup email connections'.
EmailStep(e, in) ==
    IF e["EMAIL_MANAGER_AVAILABLE"]
    THEN [log |-> <<"close_all_connections">>, raised |-> in.close = "raises"]
    ELSE [log |-> <<>>, raised |-> FALSE]

\* The body of the try of cleanup_on_exit: the steps in order, up to the
\* first one that raises.
CleanupBody(e, in) ==
    IF in.perf_import = "ImportError" THEN [log |-> <<>>, raised |-> TRUE]
    ELSE IF in.perf_cleanup = "raises"
    THEN [log |-> <<"cleanup_performance_monitor">>, raised |-> TRUE]
    ELSE LET d == DocumentStep(in)
             m == EmailStep(e, in)
         IN  IF d.raised
             THEN [log |-> <<"cleanup_performance_monitor">> \o d.log, raised |-> TRUE]
             ELSE [log |-> <<"cleanup_performance_monitor">> \o d.log \o m.log,
                   raised |-> m.raised]

\* A plausible slip: the outer handler catches ImportError only.
CleanupCatchingImportErrorOnly(e, in) ==
    LET b == CleanupBody(e, in) IN
    IF ~b.raised
    THEN [log |-> b.log \o <<"logger.info">>, out |-> Return("None")]
    ELSE IF in.perf_import = "ImportError"
    THEN [log |-> b.log \o <<"logger.error">>, out |-> Return("None")]
    ELSE [log |-> b.log, out |-> Raise("Exception")]

\* cleanup_on_exit(): 'except Exception' logs whatever a step raised.
cleanup_on_exit(e, in) ==
    LET b == CleanupBody(e, in) IN
    IF ~b.raised
    THEN [log |-> b.log \o <<"logger.info">>, out |-> Return("None")]
    ELSE [log |-> b.log \o <<"logger.error">>, out |-> Return("None")]

ExitFrame ==
    UNCHANGED <<env, sessionVars, reqVars, lazyVars, healthVars, mainVars,
                batchVars, formVars>>

\* main() ends inside the try of the __main__ block.
MainEnds ==
    /\ exit_pc = "main"
    /\ \E o \in MainEndings : main_ended' = o
    /\ exit_pc' = "finally"
    /\ UNCHANGED <<cleanup_in, cleanup_log, cleanup_calls, cleanup_out>>
    /\ ExitFrame

\* The finally block: cleanup_on_exit() is called however main() ended; the
\* script is over after it, or when cleanup_on_exit raises.
CleanupOnExit ==
    /\ exit_pc = "finally"
    /\ LET r == cleanup_on_exit(env, cleanup_in) IN
        /\ cleanup_log' = cleanup_log \o r.log
        /\ cleanup_out' = r.out
    /\ cleanup_calls' = cleanup_calls + 1
    /\ exit_pc' = "over"
    /\ UNCHANGED <<main_ended, cleanup_in>>
    /\ ExitFrame

ExitInit ==
    /\ MainIdle
    /\ bulk = [s \in Sessions |-> BulkNotStarted]
    /\ bulk_n = 0
    /\ validation = NoValidation
    /\ FormIdle
    /\ env \in EnvsVarying({"EMAIL_MANAGER_AVAILABLE"})
    /\ SessionIdle
    /\ ReqIdle
    /\ LazyIdle
    /\ HealthIdle
    /\ exit_pc = "main"
    /\ main_ended = "none"
    /\ cleanup_in \in CleanupInputs
    /\ cleanup_log = <<>>
    /\ cleanup_calls = 0
    /\ cleanup_out = Return("none")

ExitNext ==
    \/ MainEnds
    \/ CleanupOnExit

SpecExit == ExitInit /\ [][ExitNext]_vars

InLog(step) == \E i \in 1..Len(cleanup_log) : cleanup_log[i] = step

\* C23: when cleanup_on_exit has run and the real email manager is
\* available, close_all_connections was called on it.
C23_ConnectionsClosed ==
    (exit_pc = "over" /\ env["EMAIL_MANAGER_AVAILABLE"])
        => InLog("close_all_connections")

\* C24: cleanup_on_exit is not called before main() has ended; once the
\* script is over it has been called exactly once, however main() ended,
\* and it returned whatever its steps did.
C24_CleanupOnceNeverRaises ==
    /\ exit_pc = "main" => cleanup_calls = 0
    /\ exit_pc = "over" =>
        /\ cleanup_calls = 1
        /\ cleanup_out = Return("None")

\* The script is over after main() raised and a cleanup call raised too.
C24_Witness ==
    /\ exit_pc = "over"
    /\ main_ended = "raised"
    /\ cleanup_in.perf_import = "ok"
    /\ cleanup_in.perf_cleanup = "raises"
    /\ InLog("logger.error")

(***************************************************************************)
(* The configuration gate of main()                                        *)
(***************************************************************************)

\* C25: a run is at the session initialisation or the rendering only when
\* validate_config did not report invalid and did not fail to answer in
\* debug mode; a run that showed either error has stopped; and a run that
\* skipped the validation goes on with no warnings to show.
C25_OnlyValidConfiguration ==
    /\ pc \in {"session", "render"} =>
            shown \cap {"config_error", "config_no_result"} = {}
    /\ shown \cap {"config_error", "config_no_result"} # {} =>
            pc = "idle" /\ outcome = "stopped"
    /\ "config_no_result" \in shown => DebugMode(session)
    /\ "config_skipped" \in shown =>
            /\ "config_warnings" \notin shown
            /\ outcome # "stopped"

\* A run without debug mode got no result and is rendering.
C25_Witness ==
    /\ pc = "render"
    /\ "config_skipped" \in shown
    /\ ~DebugMode(session)

(***************************************************************************)
(* SpecReqTab: render_requirements_tab over every outcome of the resolver  *)
(***************************************************************************)

\* A plausible slip: the manager is stored before it is tested for None.
RequirementsTabStoringFirst(s, r) ==
    IF r.kind = "raise" THEN s
    ELSE [s EXCEPT !["requirements_manager"] = r.value]

\* The session after 'Initialize requirements manager' when the resolver
\* ended as r: an exception goes to the handler of the tab, None makes the
\* tab return, and only a manager is stored.
RequirementsTabSession(s, r) ==
    IF r.kind = "raise" \/ r.value = None THEN s
    ELSE [s EXCEPT !["requirements_manager"] = r.value]

\* What the tab reports when the resolver ended as r.
RequirementsTabShows(r) ==
    IF r.kind = "raise" THEN {"requirements_tab_error"}
    ELSE IF r.value = None THEN {"requirements_manager_not_available"}
    ELSE {"requirements_tab"}

\* The outcome of a call of the resolver through its cache.
CachedRequirementsManager ==
    IF req_cache # NotCached THEN Return(req_cache)
    ELSE get_cached_requirements_manager(req_in)

\* render_requirements_tab(): the resolver is called only while the session
\* has no requirements_manager.
RenderRequirementsTab ==
    /\ req_calls < MaxReqCalls
    /\ IF Has(session, "requirements_manager")
       THEN /\ shown' = {"requirements_tab"}
            /\ UNCHANGED <<session, req_cache, req_out>>
       ELSE LET r == CachedRequirementsManager IN
            /\ req_out' = r
            /\ req_cache' = IF r.kind = "return" THEN r.value ELSE req_cache
            /\ session' = RequirementsTabSession(session, r)
            /\ shown' = RequirementsTabShows(r)
    /\ req_calls' = req_calls + 1
    /\ UNCHANGED <<req_in, env, sess_before, sess_calls, lazyVars, healthVars,
                   pc, click, uploaded, health_status, main_flow, outcome,
                   constructed, batchVars, formVars, exitVars>>

ReqTabInit ==
    /\ req_in \in ReqInputs
    /\ req_cache = NotCached
    /\ req_out = Return(NotCached)
    /\ req_calls = 0
    /\ env = FullEnv
    /\ SessionIdle
    /\ LazyIdle
    /\ HealthIdle
    /\ MainIdle
    /\ BatchIdle

ReqTabNext == RenderRequirementsTab

SpecReqTab == ReqTabInit /\ [][ReqTabNext]_vars

\* C26: a requirements_manager in the session is a manager, never None, and
\* a render of the tab that got no manager leaves the session as it was.
C26_StoredManagerNotNone ==
    /\ Has(session, "requirements_manager") =>
            session["requirements_manager"] \in {DatabaseManager, JsonManager}
    /\ shown \cap {"requirements_tab_error", "requirements_manager_not_available"} # {}
            => session = EmptySession

\* The resolver returned None and the tab reported it.
C26_Witness ==
    /\ req_out = Return(None)
    /\ "requirements_manager_not_available" \in shown
    /\ ~Has(session, "requirements_manager")

(***************************************************************************)
(* The healthy flag of a health record                                     *)
(***************************************************************************)

\* C27: every record check_application_health returns is unhealthy exactly
\* when it lists an issue; a record with warnings and no issue is healthy.
C27_UnhealthyIffIssues ==
    (health_calls > 0 /\ health_out.type = "dict") =>
        (health_out.healthy = FALSE <=> Len(health_out.issues) > 0)

\* A record with a warning is healthy; the witness of the other direction is
\* the record of a check that raised.
C27_Witness ==
    /\ health_calls > 0
    /\ health_out.type = "dict"
    /\ "warnings" \in DOMAIN health_out
    /\ Len(health_out.warnings) > 0
    /\ health_out.healthy = TRUE
    /\ Len(health_out.issues) = 0

(***************************************************************************)
(* The redirect to the application guide                                   *)
(***************************************************************************)

RedirectToAbout(s) == Truthy(Get(s, "redirect_to_about", "False"))

C29_RefreshReplacesBoth ==
    [][ /\ ( /\ pc = "handlers"
             /\ Has(session, "resume_tab_handler")
             /\ ~env["manager_has_async"] )
            => /\ constructed' = {"resume_tab_handler", "bulk_processor"}
               /\ Has(session', "resume_tab_handler")
               /\ Has(session', "bulk_processor")
        /\ pc' = "render"
            => /\ Has(session', "resume_tab_handler")
               /\ Has(session', "bulk_processor") ]_vars

\* A later run of the session has refreshed both handlers.
C29_Witness ==
    /\ pc = "config"
    /\ Has(session, "initialized")
    /\ ~env["manager_has_async"]
    /\ constructed = {"resume_tab_handler", "bulk_processor"}

(***************************************************************************)
(* The processing-mode indicators of one run                               *)
(***************************************************************************)

OtherMode(m) == IF m = "async" THEN "standard" ELSE "async"

\* The page shows no indicator for mode m.
NoIndicatorOf(page, m) ==
    \A name \in DOMAIN IndicatorText : IndicatorText[name][m] \notin page

\* C30: the page of a run that rendered to its end shows indicators of one
\* mode only, the mode of the session; a press on 'Retry Async Init' that
\* succeeds ends the run in a restart, and one that fails leaves the mode.
C30_IndicatorsAgree ==
    [][ /\ (pc' = "idle" /\ outcome' = "returned") =>
                NoIndicatorOf(shown', OtherMode(Mode(session')))
        /\ (pc = "render" /\ RetryPressed(session, click)) =>
                IF Truthy(session'["async_initialized"])
                THEN outcome' = "rerun"
                ELSE /\ Mode(session') = Mode(session)
                     /\ NoIndicatorOf(shown', OtherMode(Mode(session))) ]_vars

\* A run with files uploaded pressed the retry, the retry failed, and the
\* run rendered the four indicators to its end.
C30_Witness ==
    /\ pc = "idle"
    /\ outcome = "returned"
    /\ "retry_failed" \in shown
    /\ { IndicatorText[name]["standard"] : name \in DOMAIN IndicatorText } \subseteq shown

====
